---------------------------- MODULE Spec2Model ----------------------------
(***************************************************************************)
(* display-switch: the configuration core (src/src/configuration.rs).      *)
(*                                                                         *)
(* Strings are sequences of one-character strings.  Option<T> is a         *)
(* sequence of length 0 (None) or 1 (Some(v)).                             *)
(***************************************************************************)
EXTENDS Integers, Sequences, FiniteSets, TLC

VARIABLES
    fragment,       \* SpecMatch: PerMonitorConfiguration.monitor_id under test
    identifier,     \* SpecMatch: the queried monitor identifier
    matchResult,    \* SpecMatch: Option<bool>, the value matches() returned
    token,          \* SpecParse: the input-source token under test
    parsed,         \* SpecParse: Option<parse result>
    config,         \* Option<Configuration>: the loaded configuration
    queried,        \* SpecResolve: the identifier passed to configuration_for_monitor
    effective,      \* SpecResolve: Option<InputSources> it returned
    direction,      \* SpecResolve: Option<SwitchDirection> passed to source
    resolved,       \* SpecResolve: Option<Option<InputSource>> source returned
    config_file,    \* load's argument: Option<PathBuf>
    config_dir,     \* the platform configuration directory: "ok", "not_found", "create_fails"
    log_dir,        \* the platform log directory: "ok", "not_found", "create_fails"
    file,           \* Option<layer>: what the configuration file holds, None when unreadable
    environment,    \* the layer of the DISPLAY_SWITCH_ environment variables
    pc,             \* where load is: "load", "merge_file", "merge_env", "try_into", "done", "idle"
    config_file_name_local, \* load's local config_file_name: Option<PathBuf>
    settings,       \* load's local settings: the merged layers
    file_read,      \* whether load has read the configuration file
    loaded,         \* Option<Result<Configuration>>: what load returned
    log_file,       \* Option<Result<PathBuf>>: what log_file_name returned
    callers         \* SpecConcurrent: each caller's call of configuration_for_monitor and source

vars == <<fragment, identifier, matchResult, token, parsed,
          config, queried, effective, direction, resolved,
          config_file, config_dir, log_dir, file, environment, pc,
          config_file_name_local, settings, file_read, loaded, log_file, callers>>

worldVars == <<config_file, config_dir, log_dir, file, environment>>
loadVars == <<pc, config_file_name_local, settings, file_read, loaded>>

matchVars == <<fragment, identifier, matchResult>>
parseVars == <<token, parsed>>
resolveVars == <<queried, effective, direction, resolved>>

None == <<>>
Some(v) == <<v>>
IsSome(o) == Len(o) = 1
Unwrap(o) == o[1]

(***************************************************************************)
(* str::to_lowercase on the characters the model uses.                     *)
(***************************************************************************)
UpperChars == <<"A", "B", "C", "D", "E", "F", "X">>
LowerChars == <<"a", "b", "c", "d", "e", "f", "x">>

char_to_lowercase(c) ==
    IF \E i \in 1..Len(UpperChars) : UpperChars[i] = c
    THEN LowerChars[CHOOSE i \in 1..Len(UpperChars) : UpperChars[i] = c]
    ELSE c

to_lowercase(s) == [i \in 1..Len(s) |-> char_to_lowercase(s[i])]

\* str::contains(&str): the needle occurs at some offset of the haystack
contains(haystack, needle) ==
    \E k \in 0..(Len(haystack) - Len(needle)) :
        SubSeq(haystack, k + 1, k + Len(needle)) = needle

\* All strings over alphabet of length at most n
RECURSIVE StringsUpTo(_, _)
StringsUpTo(alphabet, n) ==
    IF n = 0 THEN {<<>>}
    ELSE LET shorter == StringsUpTo(alphabet, n - 1)
         IN  shorter \cup {Append(s, c) : s \in shorter, c \in alphabet}

(***************************************************************************)
(* PerMonitorConfiguration::matches                                        *)
(***************************************************************************)
matches_case_sensitive(monitor_id_field, monitor_id) ==
    contains(monitor_id, monitor_id_field)

matches(monitor_id_field, monitor_id) ==
    contains(to_lowercase(monitor_id), to_lowercase(monitor_id_field))

(***************************************************************************)
(* InputSource parsing (crate::input_source, section 4.1 of the design):   *)
(* symbolic name first, then a 0x-prefixed hexadecimal literal, then a     *)
(* decimal literal, else InvalidInputSource carrying the token.            *)
(***************************************************************************)
DisplayPort1 == <<"D", "i", "s", "p", "l", "a", "y", "P", "o", "r", "t", "1">>
DisplayPort2 == <<"D", "i", "s", "p", "l", "a", "y", "P", "o", "r", "t", "2">>

\* the symbolic-name table: name -> fixed code
SymbolicInputSource == {<<DisplayPort1, 15>>, <<DisplayPort2, 16>>}

is_symbolic(tok) == \E e \in SymbolicInputSource : e[1] = tok
symbolic_value(tok) == (CHOOSE e \in SymbolicInputSource : e[1] = tok)[2]

DigitChars == <<"0", "1", "2", "3", "4", "5", "6", "7", "8", "9",
                "a", "b", "c", "d", "e", "f">>

is_digit(c, radix) == \E i \in 1..radix : DigitChars[i] = char_to_lowercase(c)
digit_value(c) == (CHOOSE i \in 1..Len(DigitChars) : DigitChars[i] = char_to_lowercase(c)) - 1

\* from_str_radix: Some(n) for a non-empty string of digits of the radix
RECURSIVE fold_digits(_, _, _)
fold_digits(s, radix, acc) ==
    IF s = <<>> THEN acc
    ELSE fold_digits(Tail(s), radix, acc * radix + digit_value(Head(s)))

from_str_radix(s, radix) ==
    IF Len(s) > 0 /\ \A i \in 1..Len(s) : is_digit(s[i], radix)
    THEN Some(fold_digits(s, radix, 0))
    ELSE None

has_hex_prefix(tok) ==
    Len(tok) >= 2 /\ tok[1] = "0" /\ char_to_lowercase(tok[2]) = "x"

has_hex_prefix_lowercase_only(tok) ==
    Len(tok) >= 2 /\ tok[1] = "0" /\ tok[2] = "x"

Ok(v) == [ok |-> TRUE, value |-> v]
InvalidInputSource(tok) == [ok |-> FALSE, error |-> "InvalidInputSource", token |-> tok]

parse_with(tok, prefixed) ==
    IF is_symbolic(tok) THEN Ok(symbolic_value(tok))
    ELSE LET number == IF prefixed
                       THEN from_str_radix(SubSeq(tok, 3, Len(tok)), 16)
                       ELSE from_str_radix(tok, 10)
         IN  IF IsSome(number) THEN Ok(Unwrap(number)) ELSE InvalidInputSource(tok)

parse_lowercase_prefix_only(tok) == parse_with(tok, has_hex_prefix_lowercase_only(tok))

parse(tok) == parse_with(tok, has_hex_prefix(tok))

(***************************************************************************)
(* SwitchDirection, InputSources, PerMonitorConfiguration, Configuration   *)
(***************************************************************************)
SwitchDirection == {"Connect", "Disconnect"}

InputSources(connect, disconnect) ==
    [on_usb_connect |-> connect, on_usb_disconnect |-> disconnect]

PerMonitorConfiguration(id, sources) ==
    [monitor_id |-> id, input_sources |-> sources]

NumSlots == 6

\* Option::or
or(a, b) == IF IsSome(a) THEN a ELSE b

merge_default_first(self, default) ==
    InputSources(or(default.on_usb_connect, self.on_usb_connect),
                 or(default.on_usb_disconnect, self.on_usb_disconnect))

\* InputSources::merge
merge(self, default) ==
    InputSources(or(self.on_usb_connect, default.on_usb_connect),
                 or(self.on_usb_disconnect, default.on_usb_disconnect))

\* InputSources::source
source(self, dir) ==
    IF dir = "Connect" THEN self.on_usb_connect ELSE self.on_usb_disconnect

\* the array [&self.monitor1, ..., &self.monitor6]
monitor_slots(self) ==
    <<self.monitor1, self.monitor2, self.monitor3,
      self.monitor4, self.monitor5, self.monitor6>>

\* a closure that takes any populated slot
matching_any_populated(slot, id) == slot

\* the closure given to find_map: Some(config) of a populated slot that matches
matching(slot, id) ==
    IF IsSome(slot) /\ matches(Unwrap(slot).monitor_id, id) THEN slot ELSE None

\* a scan that keeps the last match instead of the first
RECURSIVE find_map_last(_, _)
find_map_last(slots, id) ==
    IF slots = <<>> THEN None
    ELSE IF IsSome(find_map_last(Tail(slots), id)) THEN find_map_last(Tail(slots), id)
    ELSE matching(Head(slots), id)

\* Iterator::find_map: the first Some the closure returns, in slot order
RECURSIVE find_map(_, _)
find_map(slots, id) ==
    IF slots = <<>> THEN None
    ELSE IF IsSome(matching(Head(slots), id)) THEN matching(Head(slots), id)
    ELSE find_map(Tail(slots), id)

\* Option::map_or(self.input_sources, |config| config.input_sources.merge(..))
merge_global(self, per_monitor_config) ==
    IF IsSome(per_monitor_config)
    THEN merge(Unwrap(per_monitor_config).input_sources, self.input_sources)
    ELSE self.input_sources

\* Configuration::configuration_for_monitor
configuration_for_monitor(self, id) ==
    merge_global(self, find_map(monitor_slots(self), id))

(***************************************************************************)
(* The layered settings of the config crate.  A layer maps keys to string  *)
(* values; the key <<0, f>> is the top-level key f and <<i, f>> the key f  *)
(* of section monitor<i>.                                                  *)
(***************************************************************************)
Fields == {"on_usb_connect", "on_usb_disconnect"}

Layer(pairs) ==
    [k \in {q[1] : q \in pairs} |-> (CHOOSE q \in pairs : q[1] = k)[2]]

get(layer, k) == IF k \in DOMAIN layer THEN Some(layer[k]) ELSE None

\* config::Config::merge: the keys of the merged source replace those already held
merge_source(cache, src) ==
    [k \in (DOMAIN cache) \cup (DOMAIN src) |->
        IF k \in DOMAIN src THEN src[k] ELSE cache[k]]

\* settings.merge(config::File::from(config_file_name))
merge_file(cache, contents) == merge_source(cache, contents)

merge_environment_beneath(cache, env) == merge_source(env, cache)

\* .merge(config::Environment::with_prefix("DISPLAY_SWITCH"))
merge_environment(cache, env) == merge_source(cache, env)

Err(e) == [ok |-> FALSE, error |-> e]
Failure(kind, k, tok) == [error |-> kind, key |-> k, token |-> tok]

deserialize_usb_device_as_given(str) == str

\* Configuration::deserialize_usb_device
deserialize_usb_device(str) == to_lowercase(str)

\* Option<InputSource> of one key: absent is None, present is parsed
deserialize_input_source(cache, k) ==
    IF IsSome(get(cache, k)) THEN Some(parse(cache[k]).value) ELSE None

\* #[serde(flatten)] input_sources of section i (0: the top level)
deserialize_input_sources(cache, i) ==
    InputSources(deserialize_input_source(cache, <<i, "on_usb_connect">>),
                 deserialize_input_source(cache, <<i, "on_usb_disconnect">>))

section_present(cache, i) == \E k \in DOMAIN cache : k[1] = i

\* Option<PerMonitorConfiguration> of section monitor<i>
deserialize_monitor(cache, i) ==
    IF section_present(cache, i)
    THEN Some(PerMonitorConfiguration(cache[<<i, "monitor_id">>],
                                      deserialize_input_sources(cache, i)))
    ELSE None

\* what makes the deserialization of Configuration fail
deserialize_failures(cache) ==
    (IF <<0, "usb_device">> \in DOMAIN cache THEN {}
     ELSE {Failure("MissingField", <<0, "usb_device">>, <<>>)})
    \cup {Failure("MissingField", <<i, "monitor_id">>, <<>>) :
            i \in {j \in 1..NumSlots :
                     section_present(cache, j) /\ <<j, "monitor_id">> \notin DOMAIN cache}}
    \cup {Failure("InvalidInputSource", k, cache[k]) :
            k \in {q \in DOMAIN cache : q[2] \in Fields /\ ~parse(cache[q]).ok}}

\* a deserialization that drops an unparsable token instead of failing
deserialize_failures_lenient(cache) ==
    {f \in deserialize_failures(cache) : f.error # "InvalidInputSource"}

deserialize_lenient(cache) ==
    LET keep == {k \in DOMAIN cache : ~(k[2] \in Fields /\ ~parse(cache[k]).ok)}
    IN  [k \in keep |-> cache[k]]

deserialize_configuration(cache) ==
    [usb_device |-> deserialize_usb_device(cache[<<0, "usb_device">>]),
     input_sources |-> deserialize_input_sources(cache, 0),
     monitor1 |-> deserialize_monitor(cache, 1),
     monitor2 |-> deserialize_monitor(cache, 2),
     monitor3 |-> deserialize_monitor(cache, 3),
     monitor4 |-> deserialize_monitor(cache, 4),
     monitor5 |-> deserialize_monitor(cache, 5),
     monitor6 |-> deserialize_monitor(cache, 6)]

try_into_lenient(cache) ==
    IF deserialize_failures_lenient(cache) = {}
    THEN Ok(deserialize_configuration(deserialize_lenient(cache)))
    ELSE Err(deserialize_failures_lenient(cache))

\* settings.try_into::<Self>()
try_into(cache) ==
    IF deserialize_failures(cache) = {}
    THEN Ok(deserialize_configuration(cache))
    ELSE Err(deserialize_failures(cache))

DirectoryFailure(what) == {Failure(what, <<>>, <<>>)}

config_file_name_unchecked(dir) == Ok("default")

\* Configuration::config_file_name
config_file_name(dir) ==
    IF dir = "not_found" THEN Err(DirectoryFailure("Config directory not found"))
    ELSE IF dir = "create_fails" THEN Err(DirectoryFailure("failed to create directory"))
    ELSE Ok("default")

\* Configuration::log_file_name
log_file_name(dir) ==
    IF dir = "not_found" THEN Err(DirectoryFailure("Data-local directory not found"))
    ELSE IF dir = "create_fails" THEN Err(DirectoryFailure("failed to create directory"))
    ELSE Ok("log")

(***************************************************************************)
(* Configuration::load, one action per statement                           *)
(***************************************************************************)
\* let config_file_name = if let Some(name) = config_file { name } else { ..? }
LoadConfigFileName ==
    /\ pc = "load"
    /\ LET name == IF IsSome(config_file) THEN Ok(Unwrap(config_file))
                   ELSE config_file_name(config_dir)
       IN  IF name.ok
           THEN /\ config_file_name_local' = Some(name.value)
                /\ pc' = "merge_file"
                /\ loaded' = loaded
           ELSE /\ config_file_name_local' = config_file_name_local
                /\ pc' = "done"
                /\ loaded' = Some(name)
    /\ UNCHANGED <<callers, matchVars, parseVars, config, resolveVars, worldVars,
                   settings, file_read, log_file>>

LoadMergeFile ==
    /\ pc = "merge_file"
    /\ IF IsSome(file)
       THEN /\ settings' = merge_file(settings, Unwrap(file))
            /\ file_read' = TRUE
            /\ pc' = "merge_env"
            /\ loaded' = loaded
       ELSE /\ settings' = settings
            /\ file_read' = file_read
            /\ pc' = "done"
            /\ loaded' = Some(Err(DirectoryFailure("configuration file not read")))
    /\ UNCHANGED <<callers, matchVars, parseVars, config, resolveVars, worldVars,
                   config_file_name_local, log_file>>

LoadMergeEnvironment ==
    /\ pc = "merge_env"
    /\ settings' = merge_environment(settings, environment)
    /\ pc' = "try_into"
    /\ UNCHANGED <<callers, matchVars, parseVars, config, resolveVars, worldVars,
                   config_file_name_local, file_read, loaded, log_file>>

LoadTryInto ==
    /\ pc = "try_into"
    /\ loaded' = Some(try_into(settings))
    /\ config' = IF try_into(settings).ok THEN Some(try_into(settings).value) ELSE None
    /\ pc' = "done"
    /\ UNCHANGED <<callers, matchVars, parseVars, resolveVars, worldVars,
                   config_file_name_local, settings, file_read, log_file>>

\* logging::init_logging(true): File::create(Configuration::log_file_name()?)
LogFileName ==
    /\ log_file = None
    /\ log_file' = Some(log_file_name(log_dir))
    /\ UNCHANGED <<callers, matchVars, parseVars, config, resolveVars, worldVars, loadVars>>

\* no load in progress: the state of the load variables in the function specifications
LoadIdle ==
    /\ callers = <<>>
    /\ config_file = None
    /\ config_dir = "ok"
    /\ log_dir = "ok"
    /\ file = None
    /\ environment = <<>>
    /\ pc = "idle"
    /\ config_file_name_local = None
    /\ settings = <<>>
    /\ file_read = FALSE
    /\ loaded = None
    /\ log_file = None

(***************************************************************************)
(* The sources a load can meet                                             *)
(***************************************************************************)
MaxSections == 1

Optional(values) == {None} \cup {Some(v) : v \in values}

\* the pairs <<key, value>> of section i for the optional values given
Pairs(i, id, connect, disconnect, usb) ==
    {<<<<i, "monitor_id">>, Unwrap(o)>> : o \in {id} \ {None}}
    \cup {<<<<i, "on_usb_connect">>, Unwrap(o)>> : o \in {connect} \ {None}}
    \cup {<<<<i, "on_usb_disconnect">>, Unwrap(o)>> : o \in {disconnect} \ {None}}
    \cup {<<<<i, "usb_device">>, Unwrap(o)>> : o \in {usb} \ {None}}

Hex10 == <<"0", "x", "1", "0">>
Hex1A == <<"0", "X", "1", "a">>
Dec22 == <<"2", "2">>
NotASource == <<"z", "z">>

FileUsbDevices ==
    {<<"D", "E", "A", "D", ":", "B", "E", "E", "F">>,
     <<"d", "e", "a", "d", ":", "B", "E", "E", "F">>}
EnvUsbDevices == {<<"b", "e", "e", "f">>}
SectionIds == {<<"A", "b">>}

\* the top-level keys of a layer
TopPairs(usbs, connects, disconnects) ==
    {Pairs(0, None, c, d, u) :
        c \in Optional(connects), d \in Optional(disconnects), u \in Optional(usbs)}

\* the sections a file holds: a section is there when it holds a key
SectionPairs(i) ==
    {Pairs(i, id, c, d, None) :
        id \in Optional(SectionIds), c \in Optional({Hex1A, NotASource}),
        d \in Optional({NotASource})} \ {{}}

SectionChoices ==
    UNION {{UNION {g[i] : i \in P} :
               g \in {h \in [P -> UNION {SectionPairs(i) : i \in P}] :
                        \A i \in P : h[i] \in SectionPairs(i)}} :
              P \in {Q \in SUBSET (1..NumSlots) : Cardinality(Q) <= MaxSections}}

FileLayers ==
    {Layer(top \cup sections) :
        top \in TopPairs(FileUsbDevices, {DisplayPort1, NotASource}, {Hex10, NotASource}),
        sections \in SectionChoices}

EnvironmentLayers == {Layer(top) : top \in TopPairs(EnvUsbDevices, {Dec22}, {})}

DirectoryStates == {"ok", "not_found", "create_fails"}

NotResolving ==
    /\ callers = <<>>
    /\ fragment = <<>>
    /\ identifier = <<>>
    /\ matchResult = None
    /\ token = <<>>
    /\ parsed = None
    /\ queried = <<>>
    /\ effective = None
    /\ direction = None
    /\ resolved = None

LoadNotStarted ==
    /\ pc = "load"
    /\ config_file_name_local = None
    /\ settings = <<>>
    /\ file_read = FALSE
    /\ loaded = None
    /\ config = None
    /\ log_file = None

(***************************************************************************)
(* SpecLoad: load on every file and environment of the bounded domain,     *)
(* with the directories available                                          *)
(***************************************************************************)
InitLoad ==
    /\ NotResolving
    /\ LoadNotStarted
    /\ config_file \in {None, Some("explicit")}
    /\ config_dir = "ok"
    /\ log_dir = "ok"
    /\ file \in {Some(f) : f \in FileLayers}
    /\ environment \in EnvironmentLayers

NextLoad ==
    \/ LoadConfigFileName
    \/ LoadMergeFile
    \/ LoadMergeEnvironment
    \/ LoadTryInto

SpecLoad == InitLoad /\ [][NextLoad]_vars

(***************************************************************************)
(* Spec: load and log_file_name in every state of the directories, on a    *)
(* few files                                                               *)
(***************************************************************************)
\* an unreadable file, or a valid one
FewFiles ==
    {None} \cup {Some(Layer(Pairs(0, None, c, None, Some(u)))) :
                    c \in Optional({Hex10}), u \in FileUsbDevices}

Init ==
    /\ NotResolving
    /\ LoadNotStarted
    /\ config_file \in {None, Some("explicit")}
    /\ config_dir \in DirectoryStates
    /\ log_dir \in DirectoryStates
    /\ file \in FewFiles
    /\ environment \in {Layer({}), Layer(Pairs(0, None, Some(Dec22), None, None))}

Next == NextLoad \/ LogFileName

Spec == Init /\ [][Next]_vars

(***************************************************************************)
(* SpecMatch: matches() applied to every fragment and identifier           *)
(***************************************************************************)
MaxIdLen == 3
IdChars == {"a", "A", "b", "1"}
Identifiers == StringsUpTo(IdChars, MaxIdLen)

InitMatch ==
    /\ fragment \in Identifiers
    /\ identifier \in Identifiers
    /\ matchResult = None
    /\ token = <<>>
    /\ parsed = None
    /\ config = None
    /\ queried = <<>>
    /\ effective = None
    /\ direction = None
    /\ resolved = None
    /\ LoadIdle

Match ==
    /\ matchResult = None
    /\ matchResult' = Some(matches(fragment, identifier))
    /\ UNCHANGED <<callers, fragment, identifier, parseVars, config, resolveVars, worldVars, loadVars, log_file>>

NextMatch == Match

SpecMatch == InitMatch /\ [][NextMatch]_vars

(***************************************************************************)
(* SpecParse: the parser applied to every token                            *)
(***************************************************************************)
MaxTokenLen == 4
TokenChars == {"0", "1", "9", "a", "A", "f", "x", "X", "g"}
Tokens == StringsUpTo(TokenChars, MaxTokenLen) \cup {DisplayPort1, DisplayPort2}

InitParse ==
    /\ token \in Tokens
    /\ parsed = None
    /\ fragment = <<>>
    /\ identifier = <<>>
    /\ matchResult = None
    /\ config = None
    /\ queried = <<>>
    /\ effective = None
    /\ direction = None
    /\ resolved = None
    /\ LoadIdle

Parse ==
    /\ parsed = None
    /\ parsed' = Some(parse(token))
    /\ UNCHANGED <<callers, matchVars, token, config, resolveVars, worldVars, loadVars, log_file>>

NextParse == Parse

SpecParse == InitParse /\ [][NextParse]_vars

(***************************************************************************)
(* SpecResolve: one resolution, configuration_for_monitor then source, on  *)
(* every loaded configuration of the bounded domain                        *)
(***************************************************************************)
MaxPopulated == 2
SourceValues == {17, 18}
OptionalSources == {None} \cup {Some(v) : v \in SourceValues}
SliceDomain == {InputSources(c, d) : c \in OptionalSources, d \in OptionalSources}
FragmentDomain == {<<"a">>, <<"B", "1">>}
MonitorIds == {<<"A", "b", "1">>, <<"x", "A">>}
OverrideDomain ==
    {InputSources(c, d) : c \in OptionalSources, d \in {None, Some(18)}}
PopulatedDomain ==
    {PerMonitorConfiguration(f, s) : f \in FragmentDomain, s \in OverrideDomain}
UsbDevice == <<"d", "e", "a", "d", ":", "b", "e", "e", "f">>

\* a Configuration whose populated slots are those of DOMAIN populated
Configuration(usb_device, input_sources, populated) ==
    LET slot(i) == IF i \in DOMAIN populated THEN Some(populated[i]) ELSE None
    IN  [usb_device |-> usb_device, input_sources |-> input_sources,
         monitor1 |-> slot(1), monitor2 |-> slot(2), monitor3 |-> slot(3),
         monitor4 |-> slot(4), monitor5 |-> slot(5), monitor6 |-> slot(6)]

SlotChoices ==
    UNION {[P -> PopulatedDomain] :
              P \in {Q \in SUBSET (1..NumSlots) : Cardinality(Q) <= MaxPopulated}}

Configurations ==
    {Configuration(UsbDevice, g, populated) : g \in SliceDomain, populated \in SlotChoices}

InitResolve ==
    /\ config \in {Some(c) : c \in Configurations}
    /\ queried \in MonitorIds
    /\ effective = None
    /\ direction = None
    /\ resolved = None
    /\ fragment = <<>>
    /\ identifier = <<>>
    /\ matchResult = None
    /\ token = <<>>
    /\ parsed = None
    /\ LoadIdle

ConfigurationForMonitor ==
    /\ effective = None
    /\ effective' = Some(configuration_for_monitor(Unwrap(config), queried))
    /\ UNCHANGED <<callers, matchVars, parseVars, config, queried, direction, resolved,
                   worldVars, loadVars, log_file>>

Source ==
    /\ IsSome(effective)
    /\ resolved = None
    /\ \E dir \in SwitchDirection :
        /\ direction' = Some(dir)
        /\ resolved' = Some(source(Unwrap(effective), dir))
    /\ UNCHANGED <<callers, matchVars, parseVars, config, queried, effective,
                   worldVars, loadVars, log_file>>

NextResolve == ConfigurationForMonitor \/ Source

SpecResolve == InitResolve /\ [][NextResolve]_vars

(***************************************************************************)
(* SpecConcurrent: callers resolve on one loaded configuration, each call  *)
(* a step at a time: one step per slot the scan visits, the merge, source  *)
(***************************************************************************)
MaxCallers == 2
Callers == 1..MaxCallers

Str123 == <<"1", "2", "3">>
Str45 == <<"4", "5">>
Str23 == <<"2", "3">>
Hex11 == <<"0", "x", "1", "1">>
Hex12 == <<"0", "x", "1", "2">>
Hex13 == <<"0", "x", "1", "3">>
Hex20 == <<"0", "x", "2", "0">>
DeadBeef == <<"d", "e", "a", "d", ":", "B", "E", "E", "F">>

\* the file of test_per_monitor_config
TestFile ==
    Layer(Pairs(0, None, Some(Hex10), Some(Hex20), Some(DeadBeef))
          \cup Pairs(1, Some(Str123), Some(Hex11), None, None)
          \cup Pairs(2, Some(Str45), Some(Hex12), Some(Hex13), None))

\* two sections that match the same identifiers, an empty section between them
OverlapFile ==
    Layer(Pairs(0, None, Some(Hex10), None, Some(DeadBeef))
          \cup Pairs(2, Some(Str123), Some(Hex11), None, None)
          \cup Pairs(4, Some(Str23), Some(Hex12), Some(Hex13), None))

\* no section
GlobalFile == Layer(Pairs(0, None, None, Some(Hex20), Some(DeadBeef)))

ConcurrentFiles == {TestFile, OverlapFile, GlobalFile}
ConcurrentIds == {<<"3", "3", "3">>, <<"1", "2", "3", "4">>, <<"2", "3", "4", "5">>}

\* what load returns on a file, with no variable in the environment
load_file(contents) == try_into(merge_environment(merge_file(<<>>, contents), <<>>))

Idle ==
    [pc |-> "idle", monitor_id |-> <<>>, index |-> 0, per_monitor_config |-> None,
     input_sources |-> None, direction |-> None, result |-> None]

InitConcurrent ==
    /\ fragment = <<>>
    /\ identifier = <<>>
    /\ matchResult = None
    /\ token = <<>>
    /\ parsed = None
    /\ queried = <<>>
    /\ effective = None
    /\ direction = None
    /\ resolved = None
    /\ config_file = Some("explicit")
    /\ config_dir = "ok"
    /\ log_dir = "ok"
    /\ file \in {Some(f) : f \in ConcurrentFiles}
    /\ environment = <<>>
    /\ pc = "done"
    /\ config_file_name_local = config_file
    /\ settings = Unwrap(file)
    /\ file_read = TRUE
    /\ loaded = Some(load_file(Unwrap(file)))
    /\ config = Some(Unwrap(loaded).value)
    /\ log_file = None
    /\ callers = [c \in Callers |-> Idle]

othersUnchanged ==
    UNCHANGED <<matchVars, parseVars, resolveVars, worldVars, loadVars, log_file>>

\* configuration_for_monitor(&self, monitor_id) is entered
Call(c) ==
    /\ callers[c].pc = "idle"
    /\ \E id \in ConcurrentIds :
        callers' = [callers EXCEPT ![c] = [Idle EXCEPT !.pc = "scan", !.monitor_id = id,
                                                       !.index = 1]]
    /\ UNCHANGED config
    /\ othersUnchanged

\* find_map visits the slot at index: it ends the scan on a match and moves on otherwise
Scan(c) ==
    /\ callers[c].pc = "scan"
    /\ LET self == Unwrap(config)
           i == callers[c].index
           found == IF i <= NumSlots
                    THEN matching(monitor_slots(self)[i], callers[c].monitor_id)
                    ELSE None
       IN  callers' = [callers EXCEPT ![c] =
               IF i > NumSlots \/ IsSome(found)
               THEN [@ EXCEPT !.pc = "merge", !.per_monitor_config = found]
               ELSE [@ EXCEPT !.index = i + 1]]
    /\ UNCHANGED config
    /\ othersUnchanged

\* a merge that stores the merged slice in the matched slot
MergeInPlace(c) ==
    /\ callers[c].pc = "merge"
    /\ LET self == Unwrap(config)
           merged == merge_global(self, callers[c].per_monitor_config)
           i == callers[c].index
           stored(slot) == Some([Unwrap(slot) EXCEPT !.input_sources = merged])
       IN  /\ callers' = [callers EXCEPT ![c] =
                             [@ EXCEPT !.pc = "source", !.input_sources = Some(merged)]]
           /\ config' = IF ~IsSome(callers[c].per_monitor_config) THEN config
                        ELSE Some(CASE i = 1 -> [self EXCEPT !.monitor1 = stored(@)]
                                    [] i = 2 -> [self EXCEPT !.monitor2 = stored(@)]
                                    [] i = 3 -> [self EXCEPT !.monitor3 = stored(@)]
                                    [] i = 4 -> [self EXCEPT !.monitor4 = stored(@)]
                                    [] i = 5 -> [self EXCEPT !.monitor5 = stored(@)]
                                    [] OTHER -> [self EXCEPT !.monitor6 = stored(@)])
    /\ othersUnchanged

\* per_monitor_config.map_or(self.input_sources, |config| ..merge(&self.input_sources))
Merge(c) ==
    /\ callers[c].pc = "merge"
    /\ callers' = [callers EXCEPT ![c] =
           [@ EXCEPT !.pc = "source",
                     !.input_sources =
                         Some(merge_global(Unwrap(config), callers[c].per_monitor_config))]]
    /\ UNCHANGED config
    /\ othersUnchanged

\* the caller asks the returned InputSources for the source of a direction
CallSource(c) ==
    /\ callers[c].pc = "source"
    /\ \E dir \in SwitchDirection :
        callers' = [callers EXCEPT ![c] =
            [@ EXCEPT !.pc = "done", !.direction = Some(dir),
                      !.result = Some(source(Unwrap(callers[c].input_sources), dir))]]
    /\ UNCHANGED config
    /\ othersUnchanged

\* the caller is done with the result and may call again
Return(c) ==
    /\ callers[c].pc = "done"
    /\ callers' = [callers EXCEPT ![c] = Idle]
    /\ UNCHANGED config
    /\ othersUnchanged

NextConcurrent ==
    \E c \in Callers : Call(c) \/ Scan(c) \/ Merge(c) \/ CallSource(c) \/ Return(c)

SpecConcurrent == InitConcurrent /\ [][NextConcurrent]_vars

(***************************************************************************)
(* Properties of resolution (SpecResolve)                                  *)
(***************************************************************************)
Min(S) == CHOOSE x \in S : \A y \in S : x <= y

\* the populated slots whose fragment matches the queried identifier
MatchingSlots ==
    {i \in 1..NumSlots :
        /\ IsSome(monitor_slots(Unwrap(config))[i])
        /\ matches(Unwrap(monitor_slots(Unwrap(config))[i]).monitor_id, queried)}

\* the override slice of slot i
SlotSources(i) == Unwrap(monitor_slots(Unwrap(config))[i]).input_sources
Global == Unwrap(config).input_sources

\* the value a slice holds for a direction
Of(slice, dir) ==
    CASE dir = "Connect" -> slice.on_usb_connect
      [] dir = "Disconnect" -> slice.on_usb_disconnect

\* C1: when several populated slots match the identifier, the result is made of the
\* lowest-numbered matching slot and the global default only: each direction is that
\* slot's value, or the global default's when that slot leaves it unset, whatever
\* the higher-numbered matching slots and the unpopulated slots before it hold.
C1_FirstMatchPrecedence ==
    IsSome(effective) =>
        LET ms == MatchingSlots
            first == SlotSources(Min(ms))
        IN  Cardinality(ms) >= 2 =>
                \A dir \in SwitchDirection :
                    Of(Unwrap(effective), dir) =
                        IF IsSome(Of(first, dir)) THEN Of(first, dir) ELSE Of(Global, dir)

\* two slots match, the first of them after an unpopulated slot; the first leaves
\* disconnect unset, the second sets it to a value that is not the global default's
C1_Witness ==
    /\ IsSome(effective)
    /\ LET ms == MatchingSlots
           first == SlotSources(Min(ms))
       IN  /\ Cardinality(ms) >= 2
           /\ Min(ms) > 1
           /\ ~IsSome(Unwrap(config).monitor1)
           /\ ~IsSome(first.on_usb_disconnect)
           /\ \E j \in ms \ {Min(ms)} :
                 /\ IsSome(SlotSources(j).on_usb_disconnect)
                 /\ SlotSources(j).on_usb_disconnect # Global.on_usb_disconnect
                 /\ SlotSources(j).on_usb_connect # first.on_usb_connect
    /\ IsSome(Global.on_usb_disconnect)
    /\ Unwrap(effective).on_usb_disconnect = Global.on_usb_disconnect

\* C2: when a slot matches, the source resolved for a direction is the matched
\* slot's value for that direction if it has one, else the global default's, else
\* None; the other direction's values play no part, and the result is always an
\* optional source, never an error.
C2_OverrideThenDefault ==
    IsSome(resolved) =>
        LET ms == MatchingSlots
            dir == Unwrap(direction)
            own == Of(SlotSources(Min(ms)), dir)
            fallback == Of(Global, dir)
        IN  ms # {} =>
                /\ Unwrap(resolved) \in OptionalSources
                /\ IsSome(own) => Unwrap(resolved) = own
                /\ (~IsSome(own) /\ IsSome(fallback)) => Unwrap(resolved) = fallback
                /\ (~IsSome(own) /\ ~IsSome(fallback)) => Unwrap(resolved) = None

\* disconnect is resolved from the global default while the matched slot sets only
\* connect, to a value the global default does not hold for disconnect
C2_Witness ==
    /\ IsSome(resolved)
    /\ direction = Some("Disconnect")
    /\ LET ms == MatchingSlots
           first == SlotSources(Min(ms))
       IN  /\ ms # {}
           /\ IsSome(first.on_usb_connect)
           /\ ~IsSome(first.on_usb_disconnect)
           /\ Global.on_usb_disconnect # first.on_usb_connect
    /\ IsSome(Global.on_usb_disconnect)
    /\ Global.on_usb_connect # Global.on_usb_disconnect
    /\ Unwrap(resolved) = Global.on_usb_disconnect

\* C3: an identifier that matches no populated slot resolves to exactly the global
\* default slice, in both directions.
C3_NoMatchFallback ==
    (IsSome(effective) /\ MatchingSlots = {}) =>
        /\ Unwrap(effective) = Global
        /\ IsSome(resolved) => Unwrap(resolved) = Of(Global, Unwrap(direction))

\* no slot matches although two are populated, one with values the global default lacks
C3_Witness ==
    /\ IsSome(resolved)
    /\ MatchingSlots = {}
    /\ \E i, j \in 1..NumSlots :
          /\ i # j
          /\ IsSome(monitor_slots(Unwrap(config))[i])
          /\ IsSome(monitor_slots(Unwrap(config))[j])
          /\ \A dir \in SwitchDirection :
                /\ IsSome(Of(SlotSources(i), dir))
                /\ Of(SlotSources(i), dir) # Of(Global, dir)
    /\ Unwrap(resolved) = Of(Global, Unwrap(direction))

(***************************************************************************)
(* Properties of matches (SpecMatch)                                       *)
(***************************************************************************)
\* the letters of the model's alphabet, upper case and lower case of each
SameLetter(a, b) ==
    \/ a = b
    \/ {a, b} \in {{"a", "A"}, {"b", "B"}, {"c", "C"}, {"d", "D"},
                    {"e", "E"}, {"f", "F"}, {"x", "X"}}

\* the fragment occurs in the identifier at offset k, letter case set aside
OccursAt(k) ==
    /\ k + Len(fragment) <= Len(identifier)
    /\ \A i \in 1..Len(fragment) : SameLetter(fragment[i], identifier[k + i])

\* C4: matches returns true exactly when the fragment occurs as a contiguous
\* substring somewhere in the identifier, letter case set aside; a fragment longer
\* than the identifier never matches.
C4_CaseInsensitiveSubstring ==
    IsSome(matchResult) =>
        /\ Unwrap(matchResult) = (\E k \in 0..Len(identifier) : OccursAt(k))
        /\ Len(fragment) > Len(identifier) => Unwrap(matchResult) = FALSE

\* a match inside the identifier that a comparison of the strings as given misses
C4_Witness ==
    /\ matchResult = Some(TRUE)
    /\ Len(fragment) = 2
    /\ Len(identifier) = 3
    /\ OccursAt(1)
    /\ ~OccursAt(0)
    /\ fragment # SubSeq(identifier, 2, 3)

(***************************************************************************)
(* Properties of InputSource parsing (SpecParse)                           *)
(***************************************************************************)
DecimalDigit(c) ==
    CASE c = "0" -> 0 [] c = "1" -> 1 [] c = "2" -> 2 [] c = "3" -> 3 [] c = "4" -> 4
      [] c = "5" -> 5 [] c = "6" -> 6 [] c = "7" -> 7 [] c = "8" -> 8 [] c = "9" -> 9
      [] OTHER -> -1

HexDigit(c) ==
    CASE c \in {"a", "A"} -> 10 [] c \in {"b", "B"} -> 11 [] c \in {"c", "C"} -> 12
      [] c \in {"d", "D"} -> 13 [] c \in {"e", "E"} -> 14 [] c \in {"f", "F"} -> 15
      [] OTHER -> DecimalDigit(c)

RECURSIVE Power(_, _)
Power(b, n) == IF n = 0 THEN 1 ELSE b * Power(b, n - 1)

\* the number the digits denote, each digit weighted by its position
RECURSIVE Positional(_, _, _)
Positional(digits, radix, i) ==
    IF i > Len(digits) THEN 0
    ELSE (IF radix = 16 THEN HexDigit(digits[i]) ELSE DecimalDigit(digits[i]))
             * Power(radix, Len(digits) - i)
         + Positional(digits, radix, i + 1)

IsSymbolicName == token \in {DisplayPort1, DisplayPort2}
IsHexLiteral ==
    /\ Len(token) >= 3
    /\ token[1] = "0"
    /\ token[2] \in {"x", "X"}
    /\ \A i \in 3..Len(token) : HexDigit(token[i]) >= 0
IsDecimalLiteral ==
    /\ Len(token) >= 1
    /\ \A i \in 1..Len(token) : DecimalDigit(token[i]) >= 0

\* C8: a symbolic name parses to its fixed code (DisplayPort1 to 0x0f, DisplayPort2
\* to 0x10); otherwise a token with the prefix 0x or 0X parses as hexadecimal, to
\* the number its digits denote whatever their case; otherwise a token parses as
\* decimal, to the number it denotes; a token of none of the three forms is an
\* InvalidInputSource failure that carries the token and no value.
C8_ParsingOrderAndResults ==
    IsSome(parsed) =>
        LET r == Unwrap(parsed)
        IN  /\ token = DisplayPort1 => r = [ok |-> TRUE, value |-> 15]
            /\ token = DisplayPort2 => r = [ok |-> TRUE, value |-> 16]
            /\ (~IsSymbolicName /\ IsHexLiteral) =>
                   r = [ok |-> TRUE, value |-> Positional(SubSeq(token, 3, Len(token)), 16, 1)]
            /\ (~IsSymbolicName /\ ~IsHexLiteral /\ IsDecimalLiteral) =>
                   r = [ok |-> TRUE, value |-> Positional(token, 10, 1)]
            /\ (~IsSymbolicName /\ ~IsHexLiteral /\ ~IsDecimalLiteral) =>
                   r = [ok |-> FALSE, error |-> "InvalidInputSource", token |-> token]

\* 0X1a, with an upper-case prefix and a lower-case digit, has parsed to 26
C8_Witness ==
    /\ token = <<"0", "X", "1", "a">>
    /\ parsed = Some([ok |-> TRUE, value |-> 26])

(***************************************************************************)
(* Properties of load (SpecLoad, Spec)                                     *)
(***************************************************************************)
LoadOk == IsSome(loaded) /\ Unwrap(loaded).ok
LoadErr == IsSome(loaded) /\ ~Unwrap(loaded).ok

\* the code of each input-source token the sources of SpecLoad hold
CodeOf(tok) ==
    CASE tok = DisplayPort1 -> 15
      [] tok = Hex10 -> 16
      [] tok = Dec22 -> 22
      [] tok = Hex1A -> 26

\* the typed value of key k of the merged settings
Typed(k) == IF k \in DOMAIN settings THEN Some(CodeOf(settings[k])) ELSE None

\* C5: a load whose settings hold an input-source token that does not parse, in a
\* global or a per-monitor position, or hold no usb_device, returns an error and
\* yields no Configuration: the token is not turned into a default or an absent
\* field, and the valid fields beside it are not applied.
C5_LoadAllOrNothing ==
    (pc = "done" /\ file_read) =>
        /\ ((\E k \in DOMAIN settings : k[2] \in Fields /\ settings[k] = NotASource)
            \/ <<0, "usb_device">> \notin DOMAIN settings)
               => (LoadErr /\ config = None)
        /\ LoadErr => config = None

\* a per-monitor token does not parse beside a valid usb_device, a valid global
\* token and a valid monitor_id: load has returned InvalidInputSource with the token
C5_Witness ==
    /\ pc = "done"
    /\ LoadErr
    /\ config = None
    /\ <<0, "usb_device">> \in DOMAIN settings
    /\ get(settings, <<0, "on_usb_connect">>) = Some(DisplayPort1)
    /\ get(settings, <<3, "monitor_id">>) = Some(<<"A", "b">>)
    /\ get(settings, <<3, "on_usb_disconnect">>) = Some(NotASource)
    /\ Unwrap(loaded).error = {Failure("InvalidInputSource", <<3, "on_usb_disconnect">>, NotASource)}

\* C6 as stated: whenever the configuration directory or the log directory cannot be
\* determined or created, a load, with an explicit path or with none, has returned an
\* error, read no file and yielded no Configuration when it is done.
C6_AnyDirectoryFailureAbortsLoad ==
    ((config_dir # "ok" \/ log_dir # "ok") /\ pc = "done") =>
        /\ LoadErr
        /\ ~file_read
        /\ config = None

\* C6 as amended: a load with no explicit path, when the configuration directory
\* cannot be determined or created, returns an error at once: no file is read,
\* nothing is merged and no Configuration is yielded.  The log directory is the
\* concern of log_file_name alone, which fails exactly when it is not available.
C6_DefaultPathDirectoryFailureAbortsLoad ==
    /\ (config_file = None /\ config_dir # "ok") =>
           /\ pc \in {"load", "done"}
           /\ pc = "done" => LoadErr
           /\ ~file_read
           /\ settings = <<>>
           /\ config = None
    /\ IsSome(log_file) => (Unwrap(log_file).ok <=> log_dir = "ok")

\* a load with no explicit path has failed on a directory that cannot be created
C6_Witness ==
    /\ config_file = None
    /\ config_dir = "create_fails"
    /\ IsSome(file)
    /\ pc = "done"
    /\ loaded = Some(Err(DirectoryFailure("failed to create directory")))
    /\ ~file_read

\* C9: the settings that are deserialized are the file's keys overlaid with the
\* environment's: a key of both layers holds the environment's value, a key of one
\* layer that layer's value; the Configuration is built from them, and nothing is
\* deserialized before both layers are merged.
C9_EnvironmentOverFile ==
    /\ pc \in {"load", "merge_file", "merge_env"} => (loaded = None /\ config = None)
    /\ (pc \in {"try_into", "done"} /\ file_read) =>
           /\ DOMAIN settings = (DOMAIN Unwrap(file)) \cup (DOMAIN environment)
           /\ \A k \in DOMAIN settings :
                 settings[k] = IF k \in DOMAIN environment THEN environment[k]
                               ELSE Unwrap(file)[k]
    /\ (LoadOk /\ <<0, "on_usb_connect">> \in DOMAIN environment) =>
           Unwrap(config).input_sources.on_usb_connect
               = Some(CodeOf(environment[<<0, "on_usb_connect">>]))
    /\ (LoadOk /\ <<0, "usb_device">> \in DOMAIN environment) =>
           Unwrap(config).usb_device = environment[<<0, "usb_device">>]
    /\ (LoadOk /\ <<0, "on_usb_connect">> \notin DOMAIN environment) =>
           Unwrap(config).input_sources.on_usb_connect
               = IF <<0, "on_usb_connect">> \in DOMAIN Unwrap(file)
                 THEN Some(CodeOf(Unwrap(file)[<<0, "on_usb_connect">>])) ELSE None

\* on_usb_connect is in both layers and loaded as the environment's 22, usb_device
\* and on_usb_disconnect are in the file alone and loaded from it
C9_Witness ==
    /\ pc = "done"
    /\ LoadOk
    /\ get(Unwrap(file), <<0, "on_usb_connect">>) = Some(DisplayPort1)
    /\ get(environment, <<0, "on_usb_connect">>) = Some(Dec22)
    /\ get(environment, <<0, "usb_device">>) = None
    /\ get(Unwrap(file), <<0, "on_usb_disconnect">>) = Some(Hex10)
    /\ Unwrap(config).input_sources = InputSources(Some(22), Some(16))
    /\ Unwrap(config).usb_device = <<"d", "e", "a", "d", ":", "b", "e", "e", "f">>

\* C10: the usb_device a load stores is the supplied string in lower case, an
\* identifier already in lower case is stored as supplied, and the monitor_id
\* fragments and the input sources are stored as supplied and as parsed.
C10_UsbDeviceLowerCased ==
    LoadOk =>
        LET supplied == settings[<<0, "usb_device">>]
            stored == Unwrap(config)
        IN  /\ supplied = <<"D", "E", "A", "D", ":", "B", "E", "E", "F">> =>
                   stored.usb_device = <<"d", "e", "a", "d", ":", "b", "e", "e", "f">>
            /\ supplied = <<"d", "e", "a", "d", ":", "B", "E", "E", "F">> =>
                   stored.usb_device = <<"d", "e", "a", "d", ":", "b", "e", "e", "f">>
            /\ supplied = <<"b", "e", "e", "f">> => stored.usb_device = supplied
            /\ stored.input_sources =
                   InputSources(Typed(<<0, "on_usb_connect">>), Typed(<<0, "on_usb_disconnect">>))
            /\ \A i \in 1..NumSlots :
                   monitor_slots(stored)[i] =
                       IF \E k \in DOMAIN settings : k[1] = i
                       THEN Some(PerMonitorConfiguration(
                                settings[<<i, "monitor_id">>],
                                InputSources(Typed(<<i, "on_usb_connect">>),
                                             Typed(<<i, "on_usb_disconnect">>))))
                       ELSE None

\* DEAD:BEEF has been stored as dead:beef beside a section whose fragment Ab and
\* source 0X1a are stored as Ab and 26
C10_Witness ==
    /\ LoadOk
    /\ settings[<<0, "usb_device">>] = <<"D", "E", "A", "D", ":", "B", "E", "E", "F">>
    /\ Unwrap(config).usb_device = <<"d", "e", "a", "d", ":", "b", "e", "e", "f">>
    /\ Unwrap(config).monitor2
           = Some(PerMonitorConfiguration(<<"A", "b">>, InputSources(Some(26), None)))

(***************************************************************************)
(* Properties of concurrent resolution (SpecConcurrent)                    *)
(***************************************************************************)
\* C7: while callers resolve in any interleaving, the Configuration stays the one
\* load returned, field for field; every finished call holds the result the same
\* call gives on that configuration run alone, so calls with the same identifier
\* and direction hold the same result.
C7_ReadOnlyResolution ==
    /\ config = Some(Unwrap(loaded).value)
    /\ \A c \in Callers :
          callers[c].pc = "done" =>
              callers[c].result =
                  Some(source(configuration_for_monitor(Unwrap(loaded).value,
                                                        callers[c].monitor_id),
                              Unwrap(callers[c].direction)))
    /\ \A c, d \in Callers :
          (/\ callers[c].pc = "done"
           /\ callers[d].pc = "done"
           /\ callers[c].monitor_id = callers[d].monitor_id
           /\ callers[c].direction = callers[d].direction)
              => callers[c].result = callers[d].result

\* one caller has finished a call that matched a slot while another, asking for the
\* same identifier, has its merged slice and is about to ask for a source
C7_Witness ==
    \E c, d \in Callers :
        /\ c # d
        /\ callers[c].pc = "done"
        /\ IsSome(callers[c].per_monitor_config)
        /\ IsSome(Unwrap(callers[c].result))
        /\ callers[d].pc = "source"
        /\ callers[d].monitor_id = callers[c].monitor_id
        /\ IsSome(callers[d].per_monitor_config)

=============================================================================
